---- MODULE Spec2Model ----
(***************************************************************************)
(* State-machine model of contracts/DungeonToken.sol (the ERC1155 game     *)
(* ledger).  Every external function of the contract is one action.  A     *)
(* call is evaluated as a transaction: its statements are applied in       *)
(* source order to a scratch copy of the storage; the first failing        *)
(* require / burn / checked addition sets the error and every later        *)
(* statement is skipped; storage is replaced by the scratch copy only when *)
(* no error was raised (EVM revert semantics).                             *)
(*                                                                         *)
(* Initial states are the storage right after the constructor and the     *)
(* storages the contract reaches from it by the call sequences of Scripts, *)
(* computed with the same transaction operators; from each, every          *)
(* interleaving of calls and clock advances up to stepLimit steps is       *)
(* explored.  totalMinted, totalBurned, lastGrant, stepCount, stepLimit    *)
(* and lastOp are history variables; the contract does not store them.     *)
(***************************************************************************)
EXTENDS Integers, Sequences, FiniteSets, TLC

\* ---------------------------------------------------------------- token ids
ENERGY == 1
GOLD == 2
COMMON_SWORD == 1001
RARE_SWORD == 1002
EPIC_SWORD == 1003
LEGENDARY_SWORD_1 == 2001
LEGENDARY_SWORD_2 == 2002
LEGENDARY_SWORD_3 == 2003
LEGENDARY_SWORD_4 == 2004
LEGENDARY_SWORD_5 == 2005

\* ------------------------------------------------------------ game constants
DUNGEON_ENERGY_COST == 1
STARTER_PACK_ENERGY == 10
STARTER_PACK_GOLD == 100
TIME_REWARD_COOLDOWN == 300

\* Stands for type(uint256).max in the checked additions of _mint: 2^24 - 1,
\* a width at which the sums of several maximal balances are still integers
\* TLC represents.
MAX_UINT == 16777215

\* ------------------------------------------------------------------- bounds
\* Number of steps (transactions, successful or reverted, and clock advances)
\* explored from each initial state.
MaxSteps == 2
\* The same for the runs that try every roll.
MaxLootSteps == 1
\* Largest block timestamp explored.
MaxTime == 600
\* Steps explored in the runs about the time reward's cooldown.
MaxTimeSteps == 2
\* Steps explored in the runs that try the time reward with every roll.
MaxRewardSteps == 1
\* Steps explored in the runs that read the registry.
MaxRegistrySteps == 2
\* Largest index passed to getPlayerAt.
MaxIndex == 3
\* Steps explored in the runs with balances at the largest integer.
MaxOverflowSteps == 2
\* Steps explored in the runs about the legendary variants.
MaxLegendarySteps == 2
MaxCraftSteps == 1
MaxDeploySteps == 1
MaxTradeSteps == 2
MaxLookups == 2

\* "% 100": the number of distinct rolls.
NumRolls == 100

\* ----------------------------------------------------------- input domains
\* A token id that is not one of the ten game ids (craftItem accepts any id).
OTHER_ID == 7

LegendaryIds == LEGENDARY_SWORD_1 .. LEGENDARY_SWORD_5

GameIds == {ENERGY, GOLD, COMMON_SWORD, RARE_SWORD, EPIC_SWORD} \cup LegendaryIds

TokenIds == GameIds \cup {OTHER_ID}

\* Addresses: the deployer and two further externally owned accounts.
Accounts == {"o", "p", "q"}

Deployer == "o"

\* Error values.  "none" is success; the others are the revert reasons of
\* the contract and of the inherited ERC1155 / Ownable code.
NoError == "none"
ErrAlreadyClaimed == "Starter pack already claimed"
ErrEnergy == "Insufficient energy"
ErrCooldown == "Time reward cooldown not met"
ErrLength == "Array length mismatch"
ErrCommon == "Insufficient Common Swords"
ErrRare == "Insufficient Rare Swords"
ErrInvalidId == "Invalid legendary ID"
ErrAlreadyCrafted == "Already crafted this legendary variant"
ErrEpic == "Insufficient Epic Swords"
ErrGold == "Insufficient Gold"
ErrBurn == "ERC1155InsufficientBalance"
ErrOverflow == "Panic(0x11)"
ErrOwner == "OwnableUnauthorizedAccount"
ErrIndex == "Panic(0x32)"
ErrApproval == "ERC1155MissingApprovalForAll"
ErrReceiver == "ERC1155InvalidReceiver"
ErrArrayLength == "ERC1155InvalidArrayLength"

VARIABLES
    balances,               \* ERC1155 _balances: account -> id -> amount
    hasClaimedStarterPack,  \* account -> BOOLEAN
    playerList,             \* sequence of accounts
    isPlayer,               \* account -> BOOLEAN
    lastTimeRewardClaim,    \* account -> timestamp
    hasCraftedLegendary,    \* account -> legendary id -> BOOLEAN
    now,                    \* block.timestamp
    totalMinted,            \* id -> sum of all amounts passed to _mint
    totalBurned,            \* id -> sum of all amounts passed to _burn
    lastGrant,              \* account -> time of its last successful claimTimeRewards
    stepCount,              \* steps taken so far
    stepLimit,              \* number of steps explored in this run
    lastOp,                 \* the last call: function, caller, arguments, error
    rollCursor,             \* loot tally: next roll to evaluate
    tally,                  \* loot tally: tiers and gold range seen so far
    wcAccount,              \* front end: account state of WalletConnect
    accountRef,             \* front end: accountRef.current of WalletConnect
    isConnecting,           \* front end: isConnecting state of WalletConnect
    appAccount,             \* front end: account state of App
    appChainId,             \* front end: chainId state of App
    lookups                 \* front end: pending eth_chainId requests

storage == <<balances, hasClaimedStarterPack, playerList, isPlayer,
             lastTimeRewardClaim, hasCraftedLegendary, totalMinted, totalBurned,
             lastGrant>>

vars == <<balances, hasClaimedStarterPack, playerList, isPlayer,
          lastTimeRewardClaim, hasCraftedLegendary, now, totalMinted,
          totalBurned, lastGrant, stepCount, stepLimit, lastOp, rollCursor,
          tally, wcAccount, accountRef, isConnecting, appAccount, appChainId,
          lookups>>

\* The state of the two front-end components that hold the wallet session.
frontend == <<wcAccount, accountRef, isConnecting, appAccount, appChainId, lookups>>

\* ---------------------------------------------------------------- helpers
RECURSIVE SumOver(_, _)
SumOver(f, S) ==
    IF S = {} THEN 0
    ELSE LET x == CHOOSE y \in S : TRUE IN f[x] + SumOver(f, S \ {x})

\* Sum over all accounts of the balance of token id.
Supply(id) == SumOver([a \in Accounts |-> balances[a][id]], Accounts)

\* The storage as one record, the scratch copy a transaction works on.
Cur ==
    [bal |-> balances, claimed |-> hasClaimedStarterPack, list |-> playerList,
     isP |-> isPlayer, lastClaim |-> lastTimeRewardClaim,
     crafted |-> hasCraftedLegendary, minted |-> totalMinted,
     burned |-> totalBurned, granted |-> lastGrant, tracked |-> << >>,
     events |-> << >>, err |-> NoError]

\* require(cond, reason)
Require(s, cond, reason) ==
    IF s.err # NoError \/ cond THEN s ELSE [s EXCEPT !.err = reason]

\* address(0), the from of a mint and the to of a burn in TransferSingle.
ZeroAddress == "0"

\* The event the inherited ERC1155 code emits for every mint and burn (its
\* operator field, always msg.sender, is left out).
TransferSingle(from, to, id, value) ==
    [ev |-> "TransferSingle", from |-> from, to |-> to, id |-> id, value |-> value]

\* emit e
Emit(s, e) ==
    IF s.err # NoError THEN s ELSE [s EXCEPT !.events = Append(@, e)]

\* Variant of Mint: the addition wraps around instead of reverting.
MintWrapping(s, to, id, amount) ==
    IF s.err # NoError THEN s
    ELSE [s EXCEPT !.bal[to][id] = (@ + amount) % (MAX_UINT + 1),
                   !.minted[id] = @ + amount,
                   !.events = Append(@, TransferSingle(ZeroAddress, to, id, amount))]

\* ERC1155._mint(to, id, amount, ""): checked addition on the balance.
Mint(s, to, id, amount) ==
    IF s.err # NoError THEN s
    ELSE IF s.bal[to][id] > MAX_UINT - amount THEN [s EXCEPT !.err = ErrOverflow]
    ELSE [s EXCEPT !.bal[to][id] = @ + amount, !.minted[id] = @ + amount,
                   !.events = Append(@, TransferSingle(ZeroAddress, to, id, amount))]

\* Variant of Burn: the subtraction is not guarded by the balance check.
BurnUnchecked(s, from, id, amount) ==
    IF s.err # NoError THEN s
    ELSE [s EXCEPT !.bal[from][id] = @ - amount, !.burned[id] = @ + amount]

\* ERC1155._burn(from, id, amount): reverts when the balance is too small.
Burn(s, from, id, amount) ==
    IF s.err # NoError THEN s
    ELSE IF s.bal[from][id] < amount THEN [s EXCEPT !.err = ErrBurn]
    ELSE [s EXCEPT !.bal[from][id] = @ - amount, !.burned[id] = @ + amount,
                   !.events = Append(@, TransferSingle(from, ZeroAddress, id, amount))]

\* Variant of TrackPlayer: the address is appended without the isPlayer test.
TrackPlayerAlways(s, player) ==
    IF s.err # NoError THEN s
    ELSE [s EXCEPT !.isP[player] = TRUE, !.list = Append(@, player),
                   !.tracked = Append(@, player)]

\* _trackPlayer(player).  The field tracked lists the arguments of the
\* _trackPlayer calls the transaction has made.
TrackPlayer(s, player) ==
    IF s.err # NoError THEN s
    ELSE IF ~s.isP[player]
         THEN [s EXCEPT !.isP[player] = TRUE, !.list = Append(@, player),
                        !.tracked = Append(@, player)]
         ELSE [s EXCEPT !.tracked = Append(@, player)]

\* A call record; fields that a function does not have keep these defaults.
Call(op, caller) ==
    [op |-> op, caller |-> caller, err |-> NoError, roll |-> 0, id |-> 0,
     target |-> caller, amount |-> 0, burnIds |-> <<>>, burnAmounts |-> <<>>,
     players |-> <<>>, time |-> 0, tracked |-> <<>>, events |-> <<>>,
     index |-> 0, ret |-> <<>>, from |-> caller, ids |-> <<>>, values |-> <<>>]

\* Variant of Commit: a failed call keeps the writes made before the failure.
CommitNoRollback(s, call) ==
    /\ stepCount < stepLimit
    /\ stepCount' = stepCount + 1
    /\ lastOp' = [call EXCEPT !.err = s.err, !.tracked = s.tracked,
                              !.events = s.events]
    /\ lastGrant' = s.granted
    /\ balances' = s.bal
    /\ hasClaimedStarterPack' = s.claimed
    /\ playerList' = s.list
    /\ isPlayer' = s.isP
    /\ lastTimeRewardClaim' = s.lastClaim
    /\ hasCraftedLegendary' = s.crafted
    /\ totalMinted' = s.minted
    /\ totalBurned' = s.burned
    /\ UNCHANGED <<now, stepLimit, rollCursor, tally, frontend>>

\* Variant of Commit: a failed call reverts all but the player registry.
CommitKeepsRegistry(s, call) ==
    /\ stepCount < stepLimit
    /\ stepCount' = stepCount + 1
    /\ lastOp' = [call EXCEPT !.err = s.err, !.tracked = s.tracked,
                              !.events = IF s.err = NoError THEN s.events ELSE << >>]
    /\ playerList' = s.list
    /\ isPlayer' = s.isP
    /\ IF s.err = NoError
       THEN /\ balances' = s.bal
            /\ hasClaimedStarterPack' = s.claimed
            /\ lastTimeRewardClaim' = s.lastClaim
            /\ hasCraftedLegendary' = s.crafted
            /\ totalMinted' = s.minted
            /\ totalBurned' = s.burned
            /\ lastGrant' = s.granted
       ELSE UNCHANGED <<balances, hasClaimedStarterPack, lastTimeRewardClaim,
                        hasCraftedLegendary, totalMinted, totalBurned, lastGrant>>
    /\ UNCHANGED <<now, stepLimit, rollCursor, tally, frontend>>

\* End of a transaction: commit the scratch copy, or revert to the storage
\* the call started from.  The call and its outcome are recorded.
Commit(s, call) ==
    /\ stepCount < stepLimit
    /\ stepCount' = stepCount + 1
    /\ lastOp' = [call EXCEPT !.err = s.err, !.tracked = s.tracked,
                              !.events = IF s.err = NoError THEN s.events ELSE << >>]
    /\ IF s.err = NoError
       THEN /\ balances' = s.bal
            /\ hasClaimedStarterPack' = s.claimed
            /\ playerList' = s.list
            /\ isPlayer' = s.isP
            /\ lastTimeRewardClaim' = s.lastClaim
            /\ hasCraftedLegendary' = s.crafted
            /\ totalMinted' = s.minted
            /\ totalBurned' = s.burned
            /\ lastGrant' = s.granted
       ELSE UNCHANGED storage
    /\ UNCHANGED <<now, stepLimit, rollCursor, tally, frontend>>

\* ------------------------------------------------------------ constructor
\* Variant of AfterConstructor: the deployer is not entered in the registry.
AfterConstructorUntracked ==
    LET s0 == [bal |-> [a \in Accounts |-> [t \in TokenIds |-> 0]],
               claimed |-> [a \in Accounts |-> FALSE],
               list |-> <<>>,
               isP |-> [a \in Accounts |-> FALSE],
               lastClaim |-> [a \in Accounts |-> 0],
               crafted |-> [a \in Accounts |-> [v \in LegendaryIds |-> FALSE]],
               minted |-> [t \in TokenIds |-> 0],
               burned |-> [t \in TokenIds |-> 0],
               granted |-> [a \in Accounts |-> 0],
               tracked |-> << >>,
               events |-> << >>,
               err |-> NoError]
        s1 == Mint(s0, Deployer, ENERGY, 1000)
    IN  Mint(s1, Deployer, GOLD, 10000)

AfterConstructor ==
    LET s0 == [bal |-> [a \in Accounts |-> [t \in TokenIds |-> 0]],
               claimed |-> [a \in Accounts |-> FALSE],
               list |-> <<>>,
               isP |-> [a \in Accounts |-> FALSE],
               lastClaim |-> [a \in Accounts |-> 0],
               crafted |-> [a \in Accounts |-> [v \in LegendaryIds |-> FALSE]],
               minted |-> [t \in TokenIds |-> 0],
               burned |-> [t \in TokenIds |-> 0],
               granted |-> [a \in Accounts |-> 0],
               tracked |-> << >>,
               events |-> << >>,
               err |-> NoError]
        s1 == Mint(s0, Deployer, ENERGY, 1000)
        s2 == Mint(s1, Deployer, GOLD, 10000)
    IN  TrackPlayer(s2, Deployer)

\* Ownable(msg.sender): the deployer; the contract itself never reassigns it.
owner == Deployer

\* ---------------------------------------------------------- claimStarterPack
\* Variant of claimStarterPackTx: the already-claimed check is missing.
claimStarterPackTxNoGuard(s, sender) ==
    LET s1 == TrackPlayer(s, sender)
        s3 == [s1 EXCEPT !.claimed[sender] = TRUE]
        s4 == Mint(s3, sender, ENERGY, STARTER_PACK_ENERGY)
        s5 == Mint(s4, sender, GOLD, STARTER_PACK_GOLD)
    IN  Mint(s5, sender, COMMON_SWORD, 1)

\* Variant of claimStarterPackTx: the Energy and Gold amounts are swapped.
claimStarterPackTxSwapped(s, sender) ==
    LET s1 == TrackPlayer(s, sender)
        s2 == Require(s1, ~s1.claimed[sender], ErrAlreadyClaimed)
        s3 == IF s2.err = NoError THEN [s2 EXCEPT !.claimed[sender] = TRUE] ELSE s2
        s4 == Mint(s3, sender, ENERGY, STARTER_PACK_GOLD)
        s5 == Mint(s4, sender, GOLD, STARTER_PACK_ENERGY)
    IN  Mint(s5, sender, COMMON_SWORD, 1)

claimStarterPackTx(s, sender) ==
    LET s1 == TrackPlayer(s, sender)
        s2 == Require(s1, ~s1.claimed[sender], ErrAlreadyClaimed)
        s3 == IF s2.err = NoError THEN [s2 EXCEPT !.claimed[sender] = TRUE] ELSE s2
        s4 == Mint(s3, sender, ENERGY, STARTER_PACK_ENERGY)
        s5 == Mint(s4, sender, GOLD, STARTER_PACK_GOLD)
        s6 == Mint(s5, sender, COMMON_SWORD, 1)
    IN  Emit(s6, [ev |-> "StarterPackClaimed", player |-> sender])

claimStarterPack ==
    \E sender \in Accounts :
        Commit(claimStarterPackTx(Cur, sender), Call("claimStarterPack", sender))

\* ---------------------------------------------------------------- runDungeon
\* Variant of LootId: the tier boundaries are inclusive.
LootIdInclusive(random) ==
    IF random <= 70 THEN COMMON_SWORD
    ELSE IF random <= 90 THEN RARE_SWORD
    ELSE EPIC_SWORD

\* Loot tier chosen from random = keccak256(...) % 100.
LootId(random) ==
    IF random < 70 THEN COMMON_SWORD
    ELSE IF random < 90 THEN RARE_SWORD
    ELSE EPIC_SWORD

\* Variant of DungeonGold: modulus 30 instead of 31.
DungeonGoldMod30(random) == 20 + (random % 30)

\* Base gold reward of a dungeon run.
DungeonGold(random) == 20 + (random % 31)

\* Variant of runDungeonTx: the caller is not tracked.
runDungeonTxNoTrack(s, sender, random) ==
    LET s2 == Require(s, s.bal[sender][ENERGY] >= DUNGEON_ENERGY_COST, ErrEnergy)
        s3 == Burn(s2, sender, ENERGY, DUNGEON_ENERGY_COST)
        s4 == Mint(s3, sender, LootId(random), 1)
    IN  Mint(s4, sender, GOLD, DungeonGold(random))

runDungeonTx(s, sender, random) ==
    LET s1 == TrackPlayer(s, sender)
        s2 == Require(s1, s1.bal[sender][ENERGY] >= DUNGEON_ENERGY_COST, ErrEnergy)
        s3 == Burn(s2, sender, ENERGY, DUNGEON_ENERGY_COST)
        s4 == Mint(s3, sender, LootId(random), 1)
        s5 == Mint(s4, sender, GOLD, DungeonGold(random))
    IN  Emit(s5, [ev |-> "DungeonRun", player |-> sender,
                  lootId |-> LootId(random), amount |-> 1])

\* ---------------------------------------------------------- claimTimeRewards
\* Variant of TimeGold: the remainder is taken modulo 5.
TimeGoldMod5(random) == 5 + (random % 5)

TimeGold(random) == 5 + (random % 6)

\* Variant of TimeEnergy: the Energy reward is taken from a digit of the
\* random value that the Gold reward does not use.
TimeEnergyDecoupled(random) == 1 + ((random \div 6) % 2)

TimeEnergy(random) == 1 + (random % 2)

\* Variant of claimTimeRewardsTx: an account that never claimed need not wait.
claimTimeRewardsTxFirstFree(s, sender, timestamp, random) ==
    LET s1 == TrackPlayer(s, sender)
        s2 == Require(s1, \/ s1.lastClaim[sender] = 0
                          \/ timestamp >= s1.lastClaim[sender] + TIME_REWARD_COOLDOWN,
                      ErrCooldown)
        s3 == IF s2.err = NoError
              THEN [s2 EXCEPT !.lastClaim[sender] = timestamp,
                              !.granted[sender] = timestamp]
              ELSE s2
        s4 == Mint(s3, sender, ENERGY, TimeEnergy(random))
        s5 == Mint(s4, sender, GOLD, TimeGold(random))
    IN  Emit(s5, [ev |-> "DungeonRun", player |-> sender, lootId |-> 0, amount |-> 0])

\* Variant of claimTimeRewardsTx: the cooldown is not checked.
claimTimeRewardsTxNoCooldown(s, sender, timestamp, random) ==
    LET s1 == TrackPlayer(s, sender)
        s3 == IF s1.err = NoError
              THEN [s1 EXCEPT !.lastClaim[sender] = timestamp,
                              !.granted[sender] = timestamp]
              ELSE s1
        s4 == Mint(s3, sender, ENERGY, TimeEnergy(random))
    IN  Mint(s4, sender, GOLD, TimeGold(random))

\* Variant of claimTimeRewardsTx: the cooldown comparison is strict.
claimTimeRewardsTxStrict(s, sender, timestamp, random) ==
    LET s1 == TrackPlayer(s, sender)
        s2 == Require(s1, timestamp > s1.lastClaim[sender] + TIME_REWARD_COOLDOWN,
                      ErrCooldown)
        s3 == IF s2.err = NoError THEN [s2 EXCEPT !.lastClaim[sender] = timestamp] ELSE s2
        s4 == Mint(s3, sender, ENERGY, TimeEnergy(random))
    IN  Mint(s4, sender, GOLD, TimeGold(random))

claimTimeRewardsTx(s, sender, timestamp, random) ==
    LET s1 == TrackPlayer(s, sender)
        s2 == Require(s1, timestamp >= s1.lastClaim[sender] + TIME_REWARD_COOLDOWN,
                      ErrCooldown)
        s3 == IF s2.err = NoError
              THEN [s2 EXCEPT !.lastClaim[sender] = timestamp,
                              !.granted[sender] = timestamp]
              ELSE s2
        s4 == Mint(s3, sender, ENERGY, TimeEnergy(random))
        s5 == Mint(s4, sender, GOLD, TimeGold(random))
    IN  Emit(s5, [ev |-> "DungeonRun", player |-> sender, lootId |-> 0, amount |-> 0])

\* ----------------------------------------------------------------- craftItem
\* for (i = 0; i < burnIds.length; i++) _burn(msg.sender, burnIds[i], burnAmounts[i])
RECURSIVE BurnLoop(_, _, _, _, _)
BurnLoop(s, sender, burnIds, burnAmounts, i) ==
    IF s.err # NoError \/ i > Len(burnIds) THEN s
    ELSE LET t == Burn(s, sender, burnIds[i], burnAmounts[i])
         IN  IF t.err # NoError THEN t
             ELSE BurnLoop(t, sender, burnIds, burnAmounts, i + 1)

\* Variant of craftItemTx: a legendary result sets the caller's crafted flag.
craftItemTxFlagged(s, sender, burnIds, burnAmounts, resultId) ==
    LET s1 == TrackPlayer(s, sender)
        s2 == Require(s1, Len(burnIds) = Len(burnAmounts), ErrLength)
        s3 == BurnLoop(s2, sender, burnIds, burnAmounts, 1)
        s4 == Mint(s3, sender, resultId, 1)
        s5 == IF s4.err = NoError /\ resultId \in LegendaryIds
              THEN [s4 EXCEPT !.crafted[sender][resultId] = TRUE]
              ELSE s4
    IN  Emit(s5, [ev |-> "ItemCrafted", player |-> sender,
                  resultId |-> resultId, amount |-> 1])

craftItemTx(s, sender, burnIds, burnAmounts, resultId) ==
    LET s1 == TrackPlayer(s, sender)
        s2 == Require(s1, Len(burnIds) = Len(burnAmounts), ErrLength)
        s3 == BurnLoop(s2, sender, burnIds, burnAmounts, 1)
        s4 == Mint(s3, sender, resultId, 1)
    IN  Emit(s4, [ev |-> "ItemCrafted", player |-> sender,
                  resultId |-> resultId, amount |-> 1])

\* ------------------------------------------------------------ craftRareSword
\* Variant of craftRareSwordTx: burns 2 Common swords instead of 3.
craftRareSwordTxBurnTwo(s, sender) ==
    LET s1 == TrackPlayer(s, sender)
        s2 == Require(s1, s1.bal[sender][COMMON_SWORD] >= 3, ErrCommon)
        s3 == Burn(s2, sender, COMMON_SWORD, 2)
    IN  Mint(s3, sender, RARE_SWORD, 1)

craftRareSwordTx(s, sender) ==
    LET s1 == TrackPlayer(s, sender)
        s2 == Require(s1, s1.bal[sender][COMMON_SWORD] >= 3, ErrCommon)
        s3 == Burn(s2, sender, COMMON_SWORD, 3)
        s4 == Mint(s3, sender, RARE_SWORD, 1)
    IN  Emit(s4, [ev |-> "ItemCrafted", player |-> sender,
                  resultId |-> RARE_SWORD, amount |-> 1])

\* ------------------------------------------------------------ craftEpicSword
\* Variant of craftEpicSwordTx: the balance check is strict.
craftEpicSwordTxStrict(s, sender) ==
    LET s1 == TrackPlayer(s, sender)
        s2 == Require(s1, s1.bal[sender][RARE_SWORD] > 2, ErrRare)
        s3 == Burn(s2, sender, RARE_SWORD, 2)
    IN  Mint(s3, sender, EPIC_SWORD, 1)

craftEpicSwordTx(s, sender) ==
    LET s1 == TrackPlayer(s, sender)
        s2 == Require(s1, s1.bal[sender][RARE_SWORD] >= 2, ErrRare)
        s3 == Burn(s2, sender, RARE_SWORD, 2)
        s4 == Mint(s3, sender, EPIC_SWORD, 1)
    IN  Emit(s4, [ev |-> "ItemCrafted", player |-> sender,
                  resultId |-> EPIC_SWORD, amount |-> 1])

\* ------------------------------------------------------- craftLegendarySword
\* Variant of craftLegendarySwordTx: the already-crafted check is missing.
craftLegendarySwordTxNoGuard(s, sender, legendaryId) ==
    LET s1 == TrackPlayer(s, sender)
        s2 == Require(s1, legendaryId >= LEGENDARY_SWORD_1
                          /\ legendaryId <= LEGENDARY_SWORD_5, ErrInvalidId)
        s4 == Require(s2, s2.bal[sender][EPIC_SWORD] >= 5, ErrEpic)
        s5 == Require(s4, s4.bal[sender][GOLD] >= 1000, ErrGold)
        s6 == IF s5.err = NoError
              THEN [s5 EXCEPT !.crafted[sender][legendaryId] = TRUE] ELSE s5
        s7 == Burn(s6, sender, EPIC_SWORD, 5)
        s8 == Burn(s7, sender, GOLD, 1000)
    IN  IF s8.err # NoError THEN s8 ELSE Mint(s8, sender, legendaryId, 1)

\* Variant of craftLegendarySwordTx: burns 100 Gold instead of 1000.
craftLegendarySwordTxCheap(s, sender, legendaryId) ==
    LET s1 == TrackPlayer(s, sender)
        s2 == Require(s1, legendaryId >= LEGENDARY_SWORD_1
                          /\ legendaryId <= LEGENDARY_SWORD_5, ErrInvalidId)
        s3 == IF s2.err # NoError THEN s2
              ELSE Require(s2, ~s2.crafted[sender][legendaryId], ErrAlreadyCrafted)
        s4 == Require(s3, s3.bal[sender][EPIC_SWORD] >= 5, ErrEpic)
        s5 == Require(s4, s4.bal[sender][GOLD] >= 1000, ErrGold)
        s6 == IF s5.err = NoError
              THEN [s5 EXCEPT !.crafted[sender][legendaryId] = TRUE] ELSE s5
        s7 == Burn(s6, sender, EPIC_SWORD, 5)
        s8 == Burn(s7, sender, GOLD, 100)
    IN  IF s8.err # NoError THEN s8 ELSE Mint(s8, sender, legendaryId, 1)

\* Variant of craftLegendarySwordTx: the materials are checked before the
\* already-crafted flag.
craftLegendarySwordTxMaterialsFirst(s, sender, legendaryId) ==
    LET s1 == TrackPlayer(s, sender)
        s2 == Require(s1, legendaryId >= LEGENDARY_SWORD_1
                          /\ legendaryId <= LEGENDARY_SWORD_5, ErrInvalidId)
        s3 == Require(s2, s2.bal[sender][EPIC_SWORD] >= 5, ErrEpic)
        s4 == Require(s3, s3.bal[sender][GOLD] >= 1000, ErrGold)
        s5 == IF s4.err # NoError THEN s4
              ELSE Require(s4, ~s4.crafted[sender][legendaryId], ErrAlreadyCrafted)
        s6 == IF s5.err = NoError
              THEN [s5 EXCEPT !.crafted[sender][legendaryId] = TRUE] ELSE s5
        s7 == Burn(s6, sender, EPIC_SWORD, 5)
        s8 == Burn(s7, sender, GOLD, 1000)
    IN  IF s8.err # NoError THEN s8 ELSE Mint(s8, sender, legendaryId, 1)

\* Variant of craftLegendarySwordTx: one flag for all variants, an account
\* that has crafted any variant is refused.
craftLegendarySwordTxOnePerPlayer(s, sender, legendaryId) ==
    LET s1 == TrackPlayer(s, sender)
        s2 == Require(s1, legendaryId >= LEGENDARY_SWORD_1
                          /\ legendaryId <= LEGENDARY_SWORD_5, ErrInvalidId)
        s3 == Require(s2, \A w \in LegendaryIds : ~s2.crafted[sender][w],
                      ErrAlreadyCrafted)
        s4 == Require(s3, s3.bal[sender][EPIC_SWORD] >= 5, ErrEpic)
        s5 == Require(s4, s4.bal[sender][GOLD] >= 1000, ErrGold)
        s6 == IF s5.err = NoError
              THEN [s5 EXCEPT !.crafted[sender][legendaryId] = TRUE] ELSE s5
        s7 == Burn(s6, sender, EPIC_SWORD, 5)
        s8 == Burn(s7, sender, GOLD, 1000)
    IN  IF s8.err # NoError THEN s8 ELSE Mint(s8, sender, legendaryId, 1)

\* Variant of craftLegendarySwordTx: an id out of range makes the function
\* return without doing anything instead of reverting.
craftLegendarySwordTxSilent(s, sender, legendaryId) ==
    LET s1 == TrackPlayer(s, sender)
        inRange == legendaryId >= LEGENDARY_SWORD_1 /\ legendaryId <= LEGENDARY_SWORD_5
        s3 == IF s1.err # NoError \/ ~inRange THEN s1
              ELSE Require(s1, ~s1.crafted[sender][legendaryId], ErrAlreadyCrafted)
        s4 == Require(s3, s3.bal[sender][EPIC_SWORD] >= 5, ErrEpic)
        s5 == Require(s4, s4.bal[sender][GOLD] >= 1000, ErrGold)
        s6 == IF s5.err = NoError
              THEN [s5 EXCEPT !.crafted[sender][legendaryId] = TRUE] ELSE s5
        s7 == Burn(s6, sender, EPIC_SWORD, 5)
        s8 == Burn(s7, sender, GOLD, 1000)
    IN  IF ~inRange THEN s
        ELSE IF s8.err # NoError THEN s8 ELSE Mint(s8, sender, legendaryId, 1)

craftLegendarySwordTx(s, sender, legendaryId) ==
    LET s1 == TrackPlayer(s, sender)
        s2 == Require(s1, legendaryId >= LEGENDARY_SWORD_1
                          /\ legendaryId <= LEGENDARY_SWORD_5, ErrInvalidId)
        s3 == IF s2.err # NoError THEN s2
              ELSE Require(s2, ~s2.crafted[sender][legendaryId], ErrAlreadyCrafted)
        s4 == Require(s3, s3.bal[sender][EPIC_SWORD] >= 5, ErrEpic)
        s5 == Require(s4, s4.bal[sender][GOLD] >= 1000, ErrGold)
        s6 == IF s5.err = NoError
              THEN [s5 EXCEPT !.crafted[sender][legendaryId] = TRUE] ELSE s5
        s7 == Burn(s6, sender, EPIC_SWORD, 5)
        s8 == Burn(s7, sender, GOLD, 1000)
    IN  IF s8.err # NoError THEN s8
        ELSE Emit(Mint(s8, sender, legendaryId, 1),
                  [ev |-> "ItemCrafted", player |-> sender,
                   resultId |-> legendaryId, amount |-> 1])

\* --------------------------------------------------------------------- admin
\* Variant of OnlyOwner: the caller is not checked.
OnlyOwnerOpen(s, sender) == s

\* modifier onlyOwner
OnlyOwner(s, sender) == Require(s, sender = owner, ErrOwner)

\* Variant of mintEnergyTx: the caller is tracked and receives the mint.
mintEnergyTxToCaller(s, sender, to, amount) ==
    Mint(TrackPlayer(OnlyOwner(s, sender), sender), sender, ENERGY, amount)

mintEnergyTx(s, sender, to, amount) ==
    Mint(TrackPlayer(OnlyOwner(s, sender), to), to, ENERGY, amount)

\* Variant of mintGoldTx: the Gold goes to the owner, not to the recipient.
mintGoldTxToOwner(s, sender, to, amount) ==
    Mint(TrackPlayer(OnlyOwner(s, sender), to), owner, GOLD, amount)

\* Variant of mintGoldTx: the recipient is not tracked.
mintGoldTxNoTrack(s, sender, to, amount) ==
    Mint(OnlyOwner(s, sender), to, GOLD, amount)

mintGoldTx(s, sender, to, amount) ==
    Mint(TrackPlayer(OnlyOwner(s, sender), to), to, GOLD, amount)

\* _burnIfBalance(player, tokenId)
BurnIfBalance(s, player, tokenId) ==
    IF s.err # NoError THEN s
    ELSE LET bal == s.bal[player][tokenId]
         IN  IF bal > 0 THEN Burn(s, player, tokenId, bal) ELSE s

\* Variant of ResetPlayer: the legendary flags are left as they are.
ResetPlayerKeepsFlags(s, player) ==
    LET b1 == BurnIfBalance(s, player, ENERGY)
        b2 == BurnIfBalance(b1, player, GOLD)
        b3 == BurnIfBalance(b2, player, COMMON_SWORD)
        b4 == BurnIfBalance(b3, player, RARE_SWORD)
        b5 == BurnIfBalance(b4, player, EPIC_SWORD)
        b6 == BurnIfBalance(b5, player, LEGENDARY_SWORD_1)
        b7 == BurnIfBalance(b6, player, LEGENDARY_SWORD_2)
        b8 == BurnIfBalance(b7, player, LEGENDARY_SWORD_3)
        b9 == BurnIfBalance(b8, player, LEGENDARY_SWORD_4)
        b10 == BurnIfBalance(b9, player, LEGENDARY_SWORD_5)
    IN  IF b10.err # NoError THEN b10
        ELSE [b10 EXCEPT !.claimed[player] = FALSE,
                         !.lastClaim[player] = 0]

\* Variant of ResetPlayer: the reward timestamps of all accounts are cleared.
ResetPlayerClearsAllTimers(s, player) ==
    LET r == ResetPlayerKeepsFlags(s, player)
    IN  IF r.err # NoError THEN r
        ELSE [r EXCEPT !.crafted[player] = [v \in LegendaryIds |-> FALSE],
                       !.lastClaim = [a \in Accounts |-> 0]]

\* Variant of ResetPlayer: the account is also taken out of the registry.
ResetPlayerUnregisters(s, player) ==
    LET r == ResetPlayerKeepsFlags(s, player)
    IN  IF r.err # NoError THEN r
        ELSE [r EXCEPT !.crafted[player] = [v \in LegendaryIds |-> FALSE],
                       !.isP[player] = FALSE,
                       !.list = SelectSeq(@, LAMBDA x : x # player)]

\* _resetPlayer(player)
ResetPlayer(s, player) ==
    LET b1 == BurnIfBalance(s, player, ENERGY)
        b2 == BurnIfBalance(b1, player, GOLD)
        b3 == BurnIfBalance(b2, player, COMMON_SWORD)
        b4 == BurnIfBalance(b3, player, RARE_SWORD)
        b5 == BurnIfBalance(b4, player, EPIC_SWORD)
        b6 == BurnIfBalance(b5, player, LEGENDARY_SWORD_1)
        b7 == BurnIfBalance(b6, player, LEGENDARY_SWORD_2)
        b8 == BurnIfBalance(b7, player, LEGENDARY_SWORD_3)
        b9 == BurnIfBalance(b8, player, LEGENDARY_SWORD_4)
        b10 == BurnIfBalance(b9, player, LEGENDARY_SWORD_5)
    IN  IF b10.err # NoError THEN b10
        ELSE Emit([b10 EXCEPT !.claimed[player] = FALSE,
                              !.lastClaim[player] = 0,
                              !.crafted[player] = [v \in LegendaryIds |-> FALSE]],
                  [ev |-> "PlayerReset", player |-> player])

resetPlayerTx(s, sender, player) == ResetPlayer(OnlyOwner(s, sender), player)

\* for (i = 0; i < players.length; i++) _resetPlayer(players[i])
RECURSIVE ResetLoop(_, _, _)
ResetLoop(s, players, i) ==
    IF s.err # NoError \/ i > Len(players) THEN s
    ELSE LET t == ResetPlayer(s, players[i])
         IN  IF t.err # NoError THEN t ELSE ResetLoop(t, players, i + 1)

\* Variant of resetPlayersTx: the loop stops one entry early.
resetPlayersTxSkipLast(s, sender, players) ==
    ResetLoop(OnlyOwner(s, sender), SubSeq(players, 1, Len(players) - 1), 1)

resetPlayersTx(s, sender, players) == ResetLoop(OnlyOwner(s, sender), players, 1)

\* Variant of resetAllPlayersTx: the loop starts at the second entry.
resetAllPlayersTxSkipFirst(s, sender) ==
    LET s1 == OnlyOwner(s, sender) IN ResetLoop(s1, s1.list, 2)

\* the loop reads playerList, which _resetPlayer never changes
resetAllPlayersTx(s, sender) ==
    LET s1 == OnlyOwner(s, sender) IN ResetLoop(s1, s1.list, 1)

\* ------------------------------------------------------- registry helpers
getPlayerCountRet(list) == <<Len(list)>>

\* Variant of getPlayerAtRet: the list is read from its end.
getPlayerAtRetFromEnd(list, index) ==
    IF index < Len(list) THEN <<list[Len(list) - index]>> ELSE << >>

\* The value getPlayerAt returns: playerList[index], indices counted from 0.
getPlayerAtRet(list, index) ==
    IF index < Len(list) THEN <<list[index + 1]>> ELSE << >>

\* The bounds check of the array access playerList[index].
getPlayerAtTx(s, index) == Require(s, index < Len(s.list), ErrIndex)

\* -------------------------------------------------------------- input sets
\* Rolls tried in Spec: Common with the largest gold reward, the r = 65 of the
\* specification's scenario B, Rare and Epic.  SpecLoot tries all of 0..99.
Rolls == {30, 65, 70, 92}

\* (burnIds, burnAmounts) pairs tried with craftItem.
BurnLists ==
    { <<<< >>, << >>>>,
      <<<<COMMON_SWORD>>, <<1>>>>,
      <<<<ENERGY, EPIC_SWORD>>, <<1, 1>>>>,
      <<<<GOLD>>, << >>>> }

ResultIds == {EPIC_SWORD, LEGENDARY_SWORD_1, OTHER_ID}

\* Variant ids tried with craftLegendarySword (valid and invalid).
VariantInputs == {LEGENDARY_SWORD_1, LEGENDARY_SWORD_2, 2000, 2006, EPIC_SWORD, GOLD}

MintAmounts == {1, 1000}

PlayerLists == { << >>, <<"p">>, <<"p", "p">>, <<"o", "q">> }

\* Block timestamps tried: the cooldown boundaries.
Times == {t \in 0 .. MaxTime : t % TIME_REWARD_COOLDOWN \in {0, TIME_REWARD_COOLDOWN - 1}}

\* ------------------------------------------------------------ initial states
\* One call applied to the scratch storage; a claimTimeRewards call carries
\* the block timestamp it is mined at.
Apply(s, c) ==
    CASE c.op = "claimStarterPack" -> claimStarterPackTx(s, c.caller)
      [] c.op = "runDungeon" -> runDungeonTx(s, c.caller, c.roll)
      [] c.op = "claimTimeRewards" -> claimTimeRewardsTx(s, c.caller, c.time, c.roll)
      [] c.op = "craftItem" -> craftItemTx(s, c.caller, c.burnIds, c.burnAmounts, c.id)
      [] c.op = "mintGold" -> mintGoldTx(s, c.caller, c.target, c.amount)
      [] c.op = "resetPlayer" -> resetPlayerTx(s, c.caller, c.target)

RECURSIVE Run(_, _, _)
Run(s, script, i) ==
    IF i > Len(script) THEN s
    ELSE LET t == Apply(s, script[i])
         IN  IF t.err # NoError THEN t ELSE Run(t, script, i + 1)

CallClaim(a) == Call("claimStarterPack", a)

CallDungeon(a, r) == [Call("runDungeon", a) EXCEPT !.roll = r]

CallCraftEpic(a) == [Call("craftItem", a) EXCEPT !.id = EPIC_SWORD]

FiveEpics(a) == [i \in 1 .. 5 |-> CallCraftEpic(a)]

\* Call sequences that lead from the constructor to the initial states:
\*   1: nothing;
\*   2: p claims the starter pack and crafts five Epic swords with craftItem;
\*      q claims the starter pack and runs the dungeon four times
\*      (two Common, two Rare);
\*   3: p crafts five Epic swords with craftItem, the owner mints it 1000 Gold;
\*   4: p claims the starter pack and, in a block with timestamp
\*      TIME_REWARD_COOLDOWN, the time reward;
\*   5: the owner mints itself Gold up to 25 below the largest integer;
\*   6: the owner crafts ten Epic swords with craftItem.
Scripts ==
    << << >>,
       <<CallClaim("p")>> \o FiveEpics("p")
          \o <<CallClaim("q"), CallDungeon("q", 30), CallDungeon("q", 30),
               CallDungeon("q", 70), CallDungeon("q", 70)>>,
       FiveEpics("p")
          \o <<[Call("mintGold", owner) EXCEPT !.target = "p", !.amount = 1000]>>,
       <<CallClaim("p"),
         [Call("claimTimeRewards", "p") EXCEPT !.time = TIME_REWARD_COOLDOWN,
                                               !.roll = 65]>>,
       <<[Call("mintGold", owner) EXCEPT !.target = owner,
                                         !.amount = MAX_UINT - 10000 - 25]>>,
       FiveEpics(owner) \o FiveEpics(owner) >>

Scenario(k) == Run(AfterConstructor, Scripts[k], 1)

EmptyTally == [common |-> 0, rare |-> 0, epic |-> 0, minGold |-> 0, maxGold |-> 0]

\* useState('') / useRef('') / useState(false) / useState(0): no wallet
\* connected, no request pending.
FrontendInit ==
    /\ wcAccount = ""
    /\ accountRef = ""
    /\ isConnecting = FALSE
    /\ appAccount = ""
    /\ appChainId = 0
    /\ lookups = << >>

\* The storage is the outcome of one of the scripts ks, the clock shows t.
InitStorage(ks, t, limit) ==
    /\ \E s \in {Scenario(k) : k \in ks} :
        /\ s.err = NoError
        /\ balances = s.bal
        /\ hasClaimedStarterPack = s.claimed
        /\ playerList = s.list
        /\ isPlayer = s.isP
        /\ lastTimeRewardClaim = s.lastClaim
        /\ hasCraftedLegendary = s.crafted
        /\ totalMinted = s.minted
        /\ totalBurned = s.burned
        /\ lastGrant = s.granted
    /\ now = t
    /\ stepCount = 0
    /\ stepLimit = limit
    /\ lastOp = Call("none", Deployer)
    /\ rollCursor = 0
    /\ tally = EmptyTally

InitFrom(ks, t, limit) == InitStorage(ks, t, limit) /\ FrontendInit

BaseScripts == 1 .. 3

InitWith(limit) == InitFrom(BaseScripts, 0, limit)

Init == InitWith(MaxSteps)

\* ------------------------------------------------------------------ actions
runDungeonWith(rolls) ==
    \E sender \in Accounts, random \in rolls :
        Commit(runDungeonTx(Cur, sender, random),
               [Call("runDungeon", sender) EXCEPT !.roll = random])

runDungeon == runDungeonWith(Rolls)

claimTimeRewardsWith(rolls) ==
    \E sender \in Accounts, random \in rolls :
        Commit(claimTimeRewardsTx(Cur, sender, now, random),
               [Call("claimTimeRewards", sender) EXCEPT !.roll = random,
                                                        !.time = now])

claimTimeRewards == claimTimeRewardsWith(Rolls)

craftItemWith(lists, results) ==
    \E sender \in Accounts, bl \in lists, resultId \in results :
        Commit(craftItemTx(Cur, sender, bl[1], bl[2], resultId),
               [Call("craftItem", sender) EXCEPT !.burnIds = bl[1],
                    !.burnAmounts = bl[2], !.id = resultId])

craftItem == craftItemWith(BurnLists, ResultIds)

craftRareSword ==
    \E sender \in Accounts :
        Commit(craftRareSwordTx(Cur, sender), Call("craftRareSword", sender))

craftEpicSword ==
    \E sender \in Accounts :
        Commit(craftEpicSwordTx(Cur, sender), Call("craftEpicSword", sender))

craftLegendarySword ==
    \E sender \in Accounts, legendaryId \in VariantInputs :
        Commit(craftLegendarySwordTx(Cur, sender, legendaryId),
               [Call("craftLegendarySword", sender) EXCEPT !.id = legendaryId])

mintEnergyWith(amounts) ==
    \E sender \in Accounts, to \in Accounts, amount \in amounts :
        Commit(mintEnergyTx(Cur, sender, to, amount),
               [Call("mintEnergy", sender) EXCEPT !.target = to, !.amount = amount])

mintEnergy == mintEnergyWith(MintAmounts)

mintGoldWith(amounts) ==
    \E sender \in Accounts, to \in Accounts, amount \in amounts :
        Commit(mintGoldTx(Cur, sender, to, amount),
               [Call("mintGold", sender) EXCEPT !.target = to, !.amount = amount])

mintGold == mintGoldWith(MintAmounts)

resetPlayer ==
    \E sender \in Accounts, player \in Accounts :
        Commit(resetPlayerTx(Cur, sender, player),
               [Call("resetPlayer", sender) EXCEPT !.target = player])

resetPlayers ==
    \E sender \in Accounts, players \in PlayerLists :
        Commit(resetPlayersTx(Cur, sender, players),
               [Call("resetPlayers", sender) EXCEPT !.players = players])

resetAllPlayers ==
    \E sender \in Accounts :
        Commit(resetAllPlayersTx(Cur, sender), Call("resetAllPlayers", sender))

\* block.timestamp moves forward between transactions.
Tick ==
    /\ stepCount < stepLimit
    /\ stepCount' = stepCount + 1
    /\ \E t \in Times : t > now /\ now' = t
    /\ UNCHANGED <<storage, stepLimit, lastOp, rollCursor, tally, frontend>>

Next ==
    \/ claimStarterPack
    \/ runDungeon
    \/ claimTimeRewards
    \/ craftItem
    \/ craftRareSword
    \/ craftEpicSword
    \/ craftLegendarySword
    \/ mintEnergy
    \/ mintGold
    \/ resetPlayer
    \/ resetPlayers
    \/ resetAllPlayers
    \/ Tick

Spec == Init /\ [][Next]_vars

\* ------------------------------------------------- runs that try every roll
AllRolls == 0 .. NumRolls - 1

runDungeonAnyRoll == runDungeonWith(AllRolls)

InitLoot == InitWith(MaxLootSteps)

NextLoot ==
    \/ claimStarterPack
    \/ runDungeonAnyRoll

SpecLoot == InitLoot /\ [][NextLoot]_vars

\* ----------------------------------------------------------- the loot tally
\* Evaluates the loot code of runDungeon on roll rollCursor and counts.
Min2(a, b) == IF a < b THEN a ELSE b

Max2(a, b) == IF a > b THEN a ELSE b

RollNext ==
    /\ rollCursor < NumRolls
    /\ LET id == LootId(rollCursor)
           g == DungeonGold(rollCursor)
       IN  tally' = [common |-> tally.common + (IF id = COMMON_SWORD THEN 1 ELSE 0),
                     rare |-> tally.rare + (IF id = RARE_SWORD THEN 1 ELSE 0),
                     epic |-> tally.epic + (IF id = EPIC_SWORD THEN 1 ELSE 0),
                     minGold |-> IF rollCursor = 0 THEN g ELSE Min2(tally.minGold, g),
                     maxGold |-> IF rollCursor = 0 THEN g ELSE Max2(tally.maxGold, g)]
    /\ rollCursor' = rollCursor + 1
    /\ UNCHANGED <<storage, now, stepCount, stepLimit, lastOp, frontend>>

SpecRolls == Init /\ [][RollNext]_vars

\* ------------------------------------- runs with balances at the largest integer
\* Amounts minted: one unit and the largest integer itself.
OverflowAmounts == {1, MAX_UINT}

mintEnergyHuge == mintEnergyWith(OverflowAmounts)

mintGoldHuge == mintGoldWith(OverflowAmounts)

InitOverflow == InitFrom({1, 5}, TIME_REWARD_COOLDOWN, MaxOverflowSteps)

NextOverflow == mintEnergyHuge \/ mintGoldHuge \/ runDungeon \/ claimTimeRewards

SpecOverflow == InitOverflow /\ [][NextOverflow]_vars

\* ------------------------------------------ runs about the legendary variants
\* p with five Epic swords and 100 or 1000 Gold, the owner with ten Epic
\* swords and 10000 Gold.
\* Every function, called once on the freshly deployed contract.
InitDeploy == InitFrom({1}, 0, MaxDeploySteps)

SpecDeploy == InitDeploy /\ [][Next]_vars

\* craftItem with lists that name an id twice and with Energy, Gold and a
\* legendary id as results, one call from each of four starting points.
CraftLists ==
    { <<<< >>, << >>>>,
      <<<<COMMON_SWORD, COMMON_SWORD>>, <<1, 1>>>>,
      <<<<EPIC_SWORD, EPIC_SWORD>>, <<3, 3>>>>,
      <<<<ENERGY, GOLD>>, <<1, 5>>>>,
      <<<<GOLD>>, << >>>> }

CraftResults == {ENERGY, GOLD, EPIC_SWORD, LEGENDARY_SWORD_1}

craftItemAny == craftItemWith(CraftLists, CraftResults)

InitCraft == InitFrom({1, 2, 3, 6}, 0, MaxCraftSteps)

SpecCraft == InitCraft /\ [][craftItemAny]_vars

InitLegendary == InitFrom({2, 3, 6}, 0, MaxLegendarySteps)

NextLegendary == craftLegendarySword \/ craftEpicSword \/ resetPlayer

SpecLegendary == InitLegendary /\ [][NextLegendary]_vars

\* ------------------------------------------------- inherited ERC1155 transfer
\* The contract is an ERC1155 and inherits safeBatchTransferFrom unchanged;
\* the Trade form of the front end calls it with the connected account as
\* sender and from.  No function of the contract grants an approval, and
\* setApprovalForAll is not called anywhere, so isApprovedForAll is false.
TransferBatch(from, to, ids, values) ==
    [ev |-> "TransferBatch", from |-> from, to |-> to, ids |-> ids, values |-> values]

\* The loop of the inherited _update: balance check, debit, credit.
RECURSIVE TransferLoop(_, _, _, _, _, _)
TransferLoop(s, from, to, ids, values, i) ==
    IF s.err # NoError \/ i > Len(ids) THEN s
    ELSE LET t == IF s.bal[from][ids[i]] < values[i]
                  THEN [s EXCEPT !.err = ErrBurn]
                  ELSE LET d == [s EXCEPT !.bal[from][ids[i]] = @ - values[i]]
                       IN  IF d.bal[to][ids[i]] > MAX_UINT - values[i]
                           THEN [d EXCEPT !.err = ErrOverflow]
                           ELSE [d EXCEPT !.bal[to][ids[i]] = @ + values[i]]
         IN  IF t.err # NoError THEN t
             ELSE TransferLoop(t, from, to, ids, values, i + 1)

\* safeBatchTransferFrom(from, to, ids, values, data) to an externally owned
\* account: it moves balances and touches neither the registry nor a flag.
safeBatchTransferFromTx(s, sender, from, to, ids, values) ==
    LET s1 == Require(s, from = sender, ErrApproval)
        s2 == Require(s1, to # ZeroAddress, ErrReceiver)
        s3 == Require(s2, Len(ids) = Len(values), ErrArrayLength)
        s4 == TransferLoop(s3, from, to, ids, values, 1)
    IN  Emit(s4, IF Len(ids) = 1
                 THEN TransferSingle(from, to, ids[1], values[1])
                 ELSE TransferBatch(from, to, ids, values))

TradeLists ==
    { <<<<EPIC_SWORD>>, <<1>>>>,
      <<<<GOLD, ENERGY>>, <<5, 1>>>>,
      <<<<GOLD>>, << >>>> }

Recipients == {"q", ZeroAddress}

safeBatchTransferFrom ==
    \E sender \in Accounts, from \in Accounts, to \in Recipients, tl \in TradeLists :
        /\ from \in {sender, Deployer}
        /\ Commit(safeBatchTransferFromTx(Cur, sender, from, to, tl[1], tl[2]),
                  [Call("safeBatchTransferFrom", sender) EXCEPT !.from = from,
                       !.target = to, !.ids = tl[1], !.values = tl[2]])

InitTrade == InitFrom({1, 3}, 0, MaxTradeSteps)

NextTrade == safeBatchTransferFrom \/ resetAllPlayers

SpecTrade == InitTrade /\ [][NextTrade]_vars

\* ------------------------------------------------------ wallet session (UI)
\* WalletConnect.tsx and App.tsx each keep the connected account in React
\* state.  The handlers below are the MetaMask event listeners, the two
\* buttons and the continuations of the asynchronous eth_chainId requests.
\* A state update and the effect that copies account to accountRef.current
\* are taken as one step.
SEPOLIA == 11155111

ChainIds == {SEPOLIA, 1}

\* The accounts MetaMask can report.
WalletAccounts == {"p", "q"}

\* A pending request: who started it and the account its continuation holds.
Lookup(kind, account) == [kind |-> kind, account |-> account]

Without(seq, i) == SubSeq(seq, 1, i - 1) \o SubSeq(seq, i + 1, Len(seq))

\* setAccount(a) of WalletConnect, with the effect that updates accountRef.
setAccount(a) ==
    /\ wcAccount' = a
    /\ accountRef' = a

\* App.handleConnect: setAccount, setWeb3, setChainId.
handleConnect(accountAddress, chainIdNum) ==
    /\ appAccount' = accountAddress
    /\ appChainId' = chainIdNum

\* App.handleDisconnect: setAccount(''), setWeb3(null), setChainId(0).
handleDisconnect ==
    /\ appAccount' = ""
    /\ appChainId' = 0

ContractUnchanged ==
    UNCHANGED <<storage, now, stepCount, stepLimit, lastOp, rollCursor, tally>>

\* accountsChanged listener: an empty list disconnects; otherwise the new
\* account is stored at once and onConnect is deferred to the answer of an
\* eth_chainId request.
onAccountsChanged ==
    /\ \E accounts \in {<< >>} \cup {<<a>> : a \in WalletAccounts} :
          IF Len(accounts) = 0
          THEN /\ setAccount("")
               /\ handleDisconnect
               /\ UNCHANGED lookups
          ELSE /\ Len(lookups) < MaxLookups
               /\ setAccount(accounts[1])
               /\ lookups' = Append(lookups, Lookup("accountsChanged", accounts[1]))
               /\ UNCHANGED <<appAccount, appChainId>>
    /\ UNCHANGED isConnecting
    /\ ContractUnchanged

\* chainChanged listener: onConnect with accountRef.current, if there is one.
onChainChanged ==
    /\ \E chainIdNum \in ChainIds :
          IF accountRef # ""
          THEN handleConnect(accountRef, chainIdNum)
          ELSE UNCHANGED <<appAccount, appChainId>>
    /\ UNCHANGED <<wcAccount, accountRef, isConnecting, lookups>>
    /\ ContractUnchanged

\* disconnect listener.
onDisconnectEvent ==
    /\ setAccount("")
    /\ handleDisconnect
    /\ UNCHANGED <<isConnecting, lookups>>
    /\ ContractUnchanged

\* The button while an account is shown; it is disabled while connecting.
disconnectWallet ==
    /\ wcAccount # ""
    /\ ~isConnecting
    /\ setAccount("")
    /\ handleDisconnect
    /\ UNCHANGED <<isConnecting, lookups>>
    /\ ContractUnchanged

\* The button while no account is shown: eth_requestAccounts, then
\* eth_chainId; the rest of the function runs when the answer arrives.
connectWallet ==
    /\ wcAccount = ""
    /\ ~isConnecting
    /\ Len(lookups) < MaxLookups
    /\ isConnecting' = TRUE
    /\ \E a \in WalletAccounts :
          lookups' = Append(lookups, Lookup("connectWallet", a))
    /\ UNCHANGED <<wcAccount, accountRef, appAccount, appChainId>>
    /\ ContractUnchanged

\* An eth_chainId request is answered, in any order.  The continuation of
\* the accountsChanged listener only calls onConnect; those of
\* checkWalletConnection and connectWallet also call setAccount.
chainIdResolved ==
    /\ \E i \in 1 .. Len(lookups), chainIdNum \in ChainIds :
          LET l == lookups[i]
          IN  /\ lookups' = Without(lookups, i)
              /\ handleConnect(l.account, chainIdNum)
              /\ IF l.kind = "accountsChanged"
                 THEN UNCHANGED <<wcAccount, accountRef>>
                 ELSE setAccount(l.account)
              /\ isConnecting' = IF l.kind = "connectWallet" THEN FALSE
                                 ELSE isConnecting
    /\ ContractUnchanged

\* A request fails or is rejected by the user: connectWallet reports the
\* error and leaves the connecting state, the other two change nothing.
chainIdRejected ==
    /\ \E i \in 1 .. Len(lookups) :
          /\ lookups' = Without(lookups, i)
          /\ isConnecting' = IF lookups[i].kind = "connectWallet" THEN FALSE
                             ELSE isConnecting
    /\ UNCHANGED <<wcAccount, accountRef, appAccount, appChainId>>
    /\ ContractUnchanged

\* After mounting: checkWalletConnection found no authorised account, or it
\* found one and waits for the chain id.
InitWallet ==
    /\ InitStorage({1}, 0, 0)
    /\ wcAccount = ""
    /\ accountRef = ""
    /\ isConnecting = FALSE
    /\ appAccount = ""
    /\ appChainId = 0
    /\ lookups \in {<< >>} \cup {<<Lookup("checkWalletConnection", a)>> : a \in WalletAccounts}

NextWallet ==
    \/ onAccountsChanged
    \/ onChainChanged
    \/ onDisconnectEvent
    \/ disconnectWallet
    \/ connectWallet
    \/ chainIdResolved
    \/ chainIdRejected

SpecWallet == InitWallet /\ [][NextWallet]_vars

\* ------------------------------------------------ runs that read the registry
Indices == 0 .. MaxIndex

getPlayerCount ==
    \E sender \in Accounts :
        Commit(Cur, [Call("getPlayerCount", sender)
                        EXCEPT !.ret = getPlayerCountRet(playerList)])

getPlayerAt ==
    \E sender \in Accounts, index \in Indices :
        Commit(getPlayerAtTx(Cur, index),
               [Call("getPlayerAt", sender)
                   EXCEPT !.index = index,
                          !.ret = getPlayerAtRet(playerList, index)])

InitRegistry == InitFrom(BaseScripts, 0, MaxRegistrySteps)

NextRegistry ==
    claimStarterPack \/ mintEnergy \/ resetAllPlayers \/ getPlayerCount \/ getPlayerAt

SpecRegistry == InitRegistry /\ [][NextRegistry]_vars

\* ------------------------------------------------ runs about the time reward
\* The cooldown: the clock starts at 0 with nobody having claimed, or at
\* TIME_REWARD_COOLDOWN right after p's claim.
InitTime ==
    \/ InitFrom({1}, 0, MaxTimeSteps)
    \/ InitFrom({4}, TIME_REWARD_COOLDOWN, MaxTimeSteps)

NextTime == claimTimeRewards \/ Tick \/ resetPlayer

SpecTime == InitTime /\ [][NextTime]_vars

\* The amounts: every roll, from states where the cooldown has elapsed.
claimTimeRewardsAnyRoll == claimTimeRewardsWith(AllRolls)

InitReward == InitFrom(BaseScripts, TIME_REWARD_COOLDOWN, MaxRewardSteps)

NextReward == claimTimeRewardsAnyRoll

SpecReward == InitReward /\ [][NextReward]_vars

\* ==================================================================== claims
\* The step is a call of the external function op (its record is lastOp').
IsCall(op) == stepCount' = stepCount + 1 /\ now' = now /\ lastOp'.op = op

Succeeded == lastOp'.err = NoError

Range(seq) == {seq[i] : i \in 1 .. Len(seq)}

ResetOps == {"resetPlayer", "resetPlayers", "resetAllPlayers"}

\* The step is a successful owner reset that covers account a.
IsResetOf(a) ==
    /\ stepCount' = stepCount + 1 /\ now' = now
    /\ lastOp'.op \in ResetOps /\ lastOp'.caller = owner /\ Succeeded
    /\ \/ lastOp'.op = "resetPlayer" /\ lastOp'.target = a
       \/ lastOp'.op = "resetPlayers" /\ a \in Range(lastOp'.players)
       \/ lastOp'.op = "resetAllPlayers" /\ a \in Range(playerList)

\* C1: for every token id the sum of all accounts' balances equals the total
\* minted minus the total burned, and no balance is negative.
C1_SupplyConservation ==
    /\ \A id \in TokenIds : Supply(id) = totalMinted[id] - totalBurned[id]
    /\ \A a \in Accounts, id \in TokenIds : balances[a][id] >= 0

\* after a reset that burned Gold and Epic swords while other Gold remains
C1_Witness ==
    /\ lastOp.op = "resetPlayer" /\ lastOp.err = NoError
    /\ totalBurned[GOLD] > 0 /\ totalBurned[EPIC_SWORD] > 0
    /\ Supply(GOLD) > 0

\* C2: a call that fails leaves every balance, every starter-pack and
\* legendary flag and every last-reward timestamp as before the call.
C2_FailureChangesNothing ==
    [][(stepCount' = stepCount + 1 /\ now' = now /\ ~Succeeded)
        => UNCHANGED <<balances, hasClaimedStarterPack, hasCraftedLegendary,
                       lastTimeRewardClaim>>]_vars

\* craftItem whose first burn is covered by the balance and whose second is not
C2_Witness ==
    /\ lastOp.op = "craftItem" /\ lastOp.err = ErrBurn
    /\ Len(lastOp.burnIds) = 2
    /\ balances[lastOp.caller][lastOp.burnIds[1]] >= lastOp.burnAmounts[1]
    /\ balances[lastOp.caller][lastOp.burnIds[2]] < lastOp.burnAmounts[2]

C6_DungeonRun ==
    [][IsCall("runDungeon")
        => LET c == lastOp'.caller
               r == lastOp'.roll
               tier == IF r < 70 THEN COMMON_SWORD
                       ELSE IF r < 90 THEN RARE_SWORD ELSE EPIC_SWORD
           IN  /\ Succeeded <=> balances[c][ENERGY] >= 1
               /\ Succeeded
                    => balances'[c] = [balances[c] EXCEPT ![ENERGY] = @ - 1,
                                                          ![tier] = @ + 1,
                                                          ![GOLD] = @ + 20 + (r % 31)]
               /\ ~Succeeded => UNCHANGED storage]_vars

\* Energy 10 and r = 65: Energy 9, CommonSword 1 + 1, Gold 100 + 23
C6_Witness ==
    /\ lastOp.op = "runDungeon" /\ lastOp.err = NoError /\ lastOp.roll = 65
    /\ balances[lastOp.caller][ENERGY] = 9
    /\ balances[lastOp.caller][COMMON_SWORD] = 2
    /\ balances[lastOp.caller][GOLD] = 123

\* C7: over the rolls 0..99 the loot code yields Common 70 times, Rare 20
\* times and Epic 10 times, and the gold reward stays within [20, 50] and
\* attains both ends.
C7_LootOdds ==
    /\ rollCursor > 0 => (20 <= tally.minGold /\ tally.maxGold <= 50)
    /\ rollCursor = 100
         => tally = [common |-> 70, rare |-> 20, epic |-> 10,
                     minGold |-> 20, maxGold |-> 50]

C7_Witness == rollCursor = 100 /\ tally.common + tally.rare + tally.epic = 100

\* C8: craftRareSword succeeds exactly when the caller has at least 3
\* CommonSword; on success it burns 3 CommonSword, mints 1 RareSword and
\* changes no other balance; otherwise it fails with the insufficient-swords
\* error and changes nothing.
C8_CraftRare ==
    [][IsCall("craftRareSword")
        => LET c == lastOp'.caller
           IN  /\ Succeeded <=> balances[c][COMMON_SWORD] >= 3
               /\ Succeeded
                    => balances' = [balances EXCEPT ![c][COMMON_SWORD] = @ - 3,
                                                    ![c][RARE_SWORD] = @ + 1]
               /\ ~Succeeded => (lastOp'.err = ErrCommon /\ UNCHANGED storage)]_vars

C8_Witness ==
    /\ lastOp.op = "craftRareSword" /\ lastOp.err = NoError
    /\ balances[lastOp.caller][COMMON_SWORD] = 0
    /\ balances[lastOp.caller][RARE_SWORD] = 3

\* C9: craftEpicSword succeeds exactly when the caller has at least 2
\* RareSword; on success it burns 2 RareSword, mints 1 EpicSword and changes
\* no other balance; otherwise it fails and changes nothing.
C9_CraftEpic ==
    [][IsCall("craftEpicSword")
        => LET c == lastOp'.caller
           IN  /\ Succeeded <=> balances[c][RARE_SWORD] >= 2
               /\ Succeeded
                    => balances' = [balances EXCEPT ![c][RARE_SWORD] = @ - 2,
                                                    ![c][EPIC_SWORD] = @ + 1]
               /\ ~Succeeded => UNCHANGED storage]_vars

C9_Witness ==
    /\ lastOp.op = "craftEpicSword" /\ lastOp.err = NoError
    /\ balances[lastOp.caller][RARE_SWORD] = 0
    /\ balances[lastOp.caller][EPIC_SWORD] = 1

\* C10: craftLegendarySword(v) with v in 2001..2005, flag (caller, v) false,
\* EpicSword >= 5 and Gold >= 1000 succeeds, burns 5 EpicSword and 1000 Gold,
\* mints 1 unit of v and sets the flag (caller, v).
C10_CraftLegendary ==
    [][(/\ IsCall("craftLegendarySword")
        /\ lastOp'.id \in 2001 .. 2005
        /\ ~hasCraftedLegendary[lastOp'.caller][lastOp'.id]
        /\ balances[lastOp'.caller][EPIC_SWORD] >= 5
        /\ balances[lastOp'.caller][GOLD] >= 1000)
        => LET c == lastOp'.caller
               v == lastOp'.id
           IN  /\ Succeeded
               /\ balances'[c] = [balances[c] EXCEPT ![EPIC_SWORD] = @ - 5,
                                                     ![GOLD] = @ - 1000,
                                                     ![v] = @ + 1]
               /\ hasCraftedLegendary'[c][v]]_vars

\* from EpicSword = 5, Gold = 1000: EpicSword 0, Gold 0, Legendary[v] 1, flag
C10_Witness ==
    /\ lastOp.op = "craftLegendarySword" /\ lastOp.err = NoError
    /\ balances[lastOp.caller][EPIC_SWORD] = 0
    /\ balances[lastOp.caller][GOLD] = 0
    /\ balances[lastOp.caller][lastOp.id] = 1
    /\ hasCraftedLegendary[lastOp.caller][lastOp.id]

\* C11: craftLegendarySword with a variant id outside 2001..2005 always fails
\* with "Invalid legendary ID" and changes no balance, flag or other storage,
\* whatever the caller holds.
C11_InvalidVariant ==
    [][(IsCall("craftLegendarySword") /\ lastOp'.id \notin 2001 .. 2005)
        => (lastOp'.err = ErrInvalidId /\ UNCHANGED storage)]_vars

\* An account holding 5 Epic swords and 1000 Gold was refused variant 2006.
C11_Witness ==
    /\ lastOp.op = "craftLegendarySword"
    /\ lastOp.id = 2006
    /\ lastOp.err = ErrInvalidId
    /\ balances[lastOp.caller][EPIC_SWORD] >= 5
    /\ balances[lastOp.caller][GOLD] >= 1000

C13_RewardAmounts ==
    [][(IsCall("claimTimeRewards") /\ Succeeded)
        => LET c == lastOp'.caller
               r == lastOp'.roll
               g == 5 + (r % 6)
               e == 1 + (r % 2)
           IN  /\ r \in 0 .. 99
               /\ g \in 5 .. 10
               /\ e \in 1 .. 2
               /\ balances' = [balances EXCEPT ![c][GOLD] = @ + g,
                                               ![c][ENERGY] = @ + e]]_vars

\* A claim with roll 5 has paid the largest amounts, 10 Gold and 2 Energy.
C13_Witness ==
    /\ lastOp.op = "claimTimeRewards"
    /\ lastOp.err = NoError
    /\ lastOp.roll = 5
    /\ balances[lastOp.caller][GOLD] = STARTER_PACK_GOLD + 10
    /\ balances[lastOp.caller][ENERGY] = STARTER_PACK_ENERGY + 2

\* The owner-only functions.
AdminOps == ResetOps \cup {"mintEnergy", "mintGold"}

\* C14: a call of mintEnergy, mintGold, resetPlayer, resetPlayers or
\* resetAllPlayers by anyone but the owner fails with the unauthorized-account
\* error and changes no balance, flag, timestamp or registry entry.
C14_OwnerOnly ==
    [][((\E op \in AdminOps : IsCall(op)) /\ lastOp'.caller # owner)
        => (lastOp'.err = ErrOwner /\ UNCHANGED storage)]_vars

\* p, holding five Epic swords, was refused resetAllPlayers.
C14_Witness ==
    /\ lastOp.op = "resetAllPlayers"
    /\ lastOp.caller = "p"
    /\ lastOp.err = ErrOwner
    /\ balances["p"][EPIC_SWORD] = 5

\* Account a holds none of the ten game tokens and has no flag or timestamp.
IsClean(a) ==
    /\ \A id \in GameIds : balances[a][id] = 0
    /\ ~hasClaimedStarterPack[a]
    /\ \A v \in LegendaryIds : ~hasCraftedLegendary[a][v]
    /\ lastTimeRewardClaim[a] = 0

\* C15: after the owner's resetPlayer(a), whatever a held, a's balance of each
\* of the ten game ids is 0, its starter-pack flag and five legendary flags
\* are false, its timestamp is 0, and the registry is as before.
C15_ResetPlayer ==
    [][(IsCall("resetPlayer") /\ lastOp'.caller = owner)
        => /\ Succeeded
           /\ \A a \in Accounts : a = lastOp'.target => IsClean(a)'
           /\ playerList' = playerList
           /\ isPlayer' = isPlayer]_vars

\* p was reset after it had crafted legendary variant 1.
C15_Witness ==
    /\ lastOp.op = "resetPlayer"
    /\ lastOp.target = "p"
    /\ lastOp.err = NoError
    /\ totalBurned[LEGENDARY_SWORD_1] = 1
    /\ totalBurned[EPIC_SWORD] = 5
    /\ isPlayer["p"]
    /\ IsClean("p")

\* The storage after the step is the scratch storage r.
StorageBecomes(r) ==
    /\ balances' = r.bal
    /\ hasClaimedStarterPack' = r.claimed
    /\ playerList' = r.list
    /\ isPlayer' = r.isP
    /\ lastTimeRewardClaim' = r.lastClaim
    /\ hasCraftedLegendary' = r.crafted
    /\ totalMinted' = r.minted
    /\ totalBurned' = r.burned
    /\ lastGrant' = r.granted

\* The owner's resetPlayer calls for the entries of list, in order.
ResetCalls(list) ==
    [i \in 1 .. Len(list) |-> [Call("resetPlayer", owner) EXCEPT !.target = list[i]]]

\* C16: resetAllPlayers by the owner resets the registry's entries one by
\* one in registry order, the owner included: the outcome is that of
\* playerCount resetPlayer calls, every registered account ends with zero
\* game balances, no flag and timestamp 0.
C16_ResetAll ==
    [][(IsCall("resetAllPlayers") /\ lastOp'.caller = owner)
        => /\ Succeeded
           /\ StorageBecomes(Run(Cur, ResetCalls(playerList), 1))
           /\ playerList' = playerList
           /\ \A i \in 1 .. Len(playerList) : IsClean(playerList[i])']_vars

\* Three registered accounts, among them the owner and p with its five Epic
\* swords, have been reset in one call.
C16_Witness ==
    /\ lastOp.op = "resetAllPlayers"
    /\ lastOp.err = NoError
    /\ Len(playerList) = 3
    /\ totalBurned[EPIC_SWORD] = 5
    /\ totalBurned[ENERGY] >= 1000
    /\ \A a \in Accounts : IsClean(a)

\* C17: the owner's resetPlayer never fails, also for an account without
\* balances or one never seen, and resetting again changes nothing;
\* resetPlayers(list) never fails and leaves the storage that resetPlayer
\* for each entry in order leaves, also with duplicate or unregistered
\* entries and for the empty list.
C17_ResetTotal ==
    [][/\ (IsCall("resetPlayer") /\ lastOp'.caller = owner)
          => /\ Succeeded
             /\ StorageBecomes(ResetPlayer(Cur, lastOp'.target))
             /\ StorageBecomes(ResetPlayer(ResetPlayer(Cur, lastOp'.target),
                                           lastOp'.target))
       /\ (IsCall("resetPlayers") /\ lastOp'.caller = owner)
          => /\ Succeeded
             /\ StorageBecomes(Run(Cur, ResetCalls(lastOp'.players), 1))]_vars

\* A list naming p twice was reset while p held five Epic swords.
C17_Witness ==
    /\ lastOp.op = "resetPlayers"
    /\ lastOp.players = <<"p", "p">>
    /\ lastOp.err = NoError
    /\ totalBurned[EPIC_SWORD] = 5
    /\ IsClean("p")

\* C18: the player list holds no address twice and holds exactly the
\* addresses whose isPlayer flag is set, so its length is the number of
\* tracked accounts.
C18_RegistryWellFormed ==
    /\ \A i, j \in 1 .. Len(playerList) : playerList[i] = playerList[j] => i = j
    /\ \A a \in Accounts : isPlayer[a] <=> a \in Range(playerList)
    /\ Len(playerList) = Cardinality({a \in Accounts : isPlayer[a]})

\* q, already in the three-entry list, has made another successful call.
C18_Witness ==
    /\ lastOp.op = "runDungeon"
    /\ lastOp.caller = "q"
    /\ lastOp.err = NoError
    /\ stepCount = 2
    /\ playerList = <<"o", "p", "q">>

\* The functions open to every account.
PlayerOps ==
    {"claimStarterPack", "runDungeon", "claimTimeRewards", "craftItem",
     "craftRareSword", "craftEpicSword", "craftLegendarySword"}

\* C19 as stated: each of the twelve state-changing functions tracks its
\* caller first, so a successful call has made _trackPlayer(caller) its first
\* tracking call and leaves the caller registered.
C19_EveryCallTracksCaller ==
    [][((\E op \in PlayerOps \cup AdminOps : IsCall(op)) /\ Succeeded)
        => /\ Len(lastOp'.tracked) >= 1
           /\ lastOp'.tracked[1] = lastOp'.caller
           /\ isPlayer'[lastOp'.caller]]_vars

\* C19 amended: the seven player functions call _trackPlayer(caller) before
\* anything can fail, and a caller not yet registered is appended by a
\* successful call; mintEnergy and mintGold track the recipient, not the
\* caller; the three reset functions track nobody and leave the registry as
\* it is; the caller of a successful call is registered in every case.
C19_TrackingByFunction ==
    [][/\ (\E op \in PlayerOps : IsCall(op))
          => /\ lastOp'.tracked = <<lastOp'.caller>>
             /\ Succeeded =>
                  playerList' = IF isPlayer[lastOp'.caller] THEN playerList
                                ELSE Append(playerList, lastOp'.caller)
       /\ ((IsCall("mintEnergy") \/ IsCall("mintGold")) /\ Succeeded)
          => /\ lastOp'.tracked = <<lastOp'.target>>
             /\ playerList' = IF isPlayer[lastOp'.target] THEN playerList
                               ELSE Append(playerList, lastOp'.target)
       /\ (\E op \in ResetOps : IsCall(op))
          => /\ lastOp'.tracked = << >>
             /\ playerList' = playerList
       /\ ((\E op \in PlayerOps \cup AdminOps : IsCall(op)) /\ Succeeded)
          => isPlayer'[lastOp'.caller]]_vars

\* q, not registered before, has run a player function and is now the last
\* entry of the registry; earlier the owner's mint had registered p.
C19_Witness ==
    /\ lastOp.op = "claimStarterPack"
    /\ lastOp.caller = "q"
    /\ lastOp.err = NoError
    /\ lastOp.tracked = <<"q">>
    /\ playerList = <<"o", "p", "q">>
    /\ totalMinted[GOLD] = 10000 + 1000 + STARTER_PACK_GOLD

\* Account a is referenced by one of the maps: it has a balance, a
\* starter-pack or legendary flag, or a last-reward timestamp.
HasEntry(a) ==
    \/ \E id \in TokenIds : balances[a][id] > 0
    \/ hasClaimedStarterPack[a]
    \/ \E v \in LegendaryIds : hasCraftedLegendary[a][v]
    \/ lastTimeRewardClaim[a] > 0

\* The step is a call of one of the twelve state-changing functions.
IsAnyCall == \E op \in PlayerOps \cup AdminOps : IsCall(op)

C21_AppendOnly ==
    [][/\ Len(playerList') >= Len(playerList)
       /\ \A i \in 1 .. Len(playerList) : playerList'[i] = playerList[i]
       /\ \A a \in Accounts : isPlayer[a] => isPlayer'[a]]_vars

\* q joined the registry as its third entry and was then reset together
\* with the owner; the list is as it was.
C21_Witness ==
    /\ lastOp.op = "resetPlayers"
    /\ lastOp.players = <<"o", "q">>
    /\ lastOp.err = NoError
    /\ stepCount = 2
    /\ totalBurned[COMMON_SWORD] = 1
    /\ playerList = <<"o", "p", "q">>

\* C22: getPlayerAt(index) returns the account at position index of the
\* registry (counted from 0) when index < getPlayerCount(), and fails with the
\* out-of-bounds error when index >= getPlayerCount(); it changes nothing
\* either way, and getPlayerCount() is the length of the registry.
C22_GetPlayerAt ==
    [][/\ IsCall("getPlayerAt")
          => LET i == lastOp'.index
             IN  /\ UNCHANGED storage
                 /\ i < Len(playerList)
                      => (Succeeded /\ lastOp'.ret = <<playerList[i + 1]>>)
                 /\ i >= Len(playerList) => lastOp'.err = ErrIndex
       /\ IsCall("getPlayerCount")
          => (Succeeded /\ lastOp'.ret = <<Len(playerList)>> /\ UNCHANGED storage)]_vars

\* With q registered third by the owner's mint, index 2 has returned q.
C22_Witness ==
    /\ lastOp.op = "getPlayerAt"
    /\ lastOp.index = 2
    /\ lastOp.err = NoError
    /\ lastOp.ret = <<"q">>
    /\ balances["q"][ENERGY] \in MintAmounts
    /\ ~hasClaimedStarterPack["q"]

\* The records the contract itself emits in a transaction (the events
\* declared by the contract, not the inherited TransferSingle).
OutcomeRecords(events) == SelectSeq(events, LAMBDA e : e.ev # "TransferSingle")

\* The change of account a's balance of token id that record e reports.
RecordDelta(e, a, id) ==
    CASE e.ev = "DungeonRun" ->
            IF e.player = a /\ e.lootId = id THEN e.amount ELSE 0
      [] e.ev = "ItemCrafted" ->
            IF e.player = a /\ e.resultId = id THEN e.amount ELSE 0
      [] OTHER -> 0

RECURSIVE ReportedDelta(_, _, _)
ReportedDelta(records, a, id) ==
    IF records = << >> THEN 0
    ELSE RecordDelta(Head(records), a, id) + ReportedDelta(Tail(records), a, id)

\* C23: every successful mutation emits an outcome record of its own that
\* names the subject account and the operation and carries all token deltas,
\* so the records replay to the balances: the reported change of every
\* balance is its actual change (for runDungeon the Gold and Energy deltas
\* too), the record of claimTimeRewards is not one a dungeon run could emit
\* and carries its amounts, and mintEnergy and mintGold emit a record.
C23_OutcomeRecords ==
    [][((\E op \in PlayerOps \cup AdminOps : IsCall(op)) /\ Succeeded)
        => LET records == OutcomeRecords(lastOp'.events)
           IN  /\ (lastOp'.op \notin {"resetPlayers", "resetAllPlayers"})
                    => Len(records) = 1
               /\ \A i \in 1 .. Len(records) :
                    records[i].player \in {lastOp'.caller, lastOp'.target}
                                           \cup Range(lastOp'.players)
                                           \cup Range(playerList)
               /\ lastOp'.op = "claimTimeRewards"
                    => ~(records[1].ev = "DungeonRun"
                         /\ records[1].lootId \in {COMMON_SWORD, RARE_SWORD, EPIC_SWORD})
               /\ \A a \in Accounts, id \in TokenIds :
                    balances'[a][id] - balances[a][id] = ReportedDelta(records, a, id)]_vars

\* The step is a mint call by the owner; id is the token the function mints.
IsOwnerMint(id) ==
    /\ \/ IsCall("mintEnergy") /\ id = ENERGY
       \/ IsCall("mintGold") /\ id = GOLD
    /\ lastOp'.caller = owner
    /\ lastOp'.amount >= 1

\* The owner's mint succeeded and changed exactly the target's balance of id
\* by the amount, registered the target and left every flag and timestamp.
MintFrame(id) ==
    LET to == lastOp'.target
    IN  /\ Succeeded
        /\ balances' = [balances EXCEPT ![to][id] = @ + lastOp'.amount]
        /\ isPlayer'[to]
        /\ playerList' = IF isPlayer[to] THEN playerList ELSE Append(playerList, to)
        /\ UNCHANGED <<hasClaimedStarterPack, hasCraftedLegendary, lastTimeRewardClaim>>

\* C24 as stated: mintEnergy and mintGold by the owner with amount >= 1
\* succeed unconditionally, add exactly amount to the target's Energy
\* (Gold), register the target and change nothing else.
C24_MintUnconditional ==
    [][\A id \in {ENERGY, GOLD} : IsOwnerMint(id) => MintFrame(id)]_vars

\* C24 amended: the same when the target's balance plus amount does not
\* exceed the largest integer; otherwise the call fails with the arithmetic
\* panic and changes nothing.
C24_MintUnlessOverflow ==
    [][\A id \in {ENERGY, GOLD} :
          IsOwnerMint(id)
            => IF balances[lastOp'.target][id] + lastOp'.amount <= MAX_UINT
               THEN MintFrame(id)
               ELSE lastOp'.err = ErrOverflow /\ UNCHANGED storage]_vars

\* q, unknown before, was minted the largest Energy amount there is and is
\* now the second entry of the registry.
C24_Witness ==
    /\ lastOp.op = "mintEnergy"
    /\ lastOp.target = "q"
    /\ lastOp.err = NoError
    /\ balances["q"][ENERGY] = MAX_UINT
    /\ playerList = <<"o", "q">>
    /\ ~hasClaimedStarterPack["q"]

\* Adding amount to account a's balance of id would pass the largest integer.
Exceeds(a, id, amount) == balances[a][id] + amount > MAX_UINT

\* The call recorded in lastOp' gets as far as a mint that would pass the
\* largest integer: the owner's mintEnergy or mintGold, a runDungeon of a
\* caller with Energy, a claimTimeRewards after the cooldown.
MintWouldOverflow ==
    LET c == lastOp'.caller
        r == lastOp'.roll
    IN  \/ IsCall("mintEnergy") /\ c = owner
             /\ Exceeds(lastOp'.target, ENERGY, lastOp'.amount)
        \/ IsCall("mintGold") /\ c = owner
             /\ Exceeds(lastOp'.target, GOLD, lastOp'.amount)
        \/ IsCall("runDungeon") /\ balances[c][ENERGY] >= DUNGEON_ENERGY_COST
             /\ (Exceeds(c, LootId(r), 1) \/ Exceeds(c, GOLD, 20 + (r % 31)))
        \/ IsCall("claimTimeRewards")
             /\ now >= lastTimeRewardClaim[c] + TIME_REWARD_COOLDOWN
             /\ (Exceeds(c, ENERGY, 1 + (r % 2)) \/ Exceeds(c, GOLD, 5 + (r % 6)))

\* C30: a mint that would push a balance above the largest integer fails
\* the whole call with the arithmetic panic: nothing wraps around (every
\* balance stays within 0 .. max) and nothing of the call is kept, neither
\* the Energy burn of runDungeon nor the timestamp of claimTimeRewards.
C30_CheckedArithmetic ==
    [][/\ MintWouldOverflow => (lastOp'.err = ErrOverflow /\ UNCHANGED storage)
       /\ (IsAnyCall /\ lastOp'.err = ErrOverflow) => MintWouldOverflow
       /\ \A a \in Accounts, id \in TokenIds : balances'[a][id] \in 0 .. MAX_UINT]_vars

\* The owner, 25 Gold below the largest integer, ran the dungeon with a
\* 50 Gold roll: the call failed and the owner still has all its Energy.
C30_Witness ==
    /\ lastOp.op = "runDungeon"
    /\ lastOp.caller = owner
    /\ lastOp.roll = 30
    /\ lastOp.err = ErrOverflow
    /\ balances[owner][ENERGY] = 1000
    /\ balances[owner][COMMON_SWORD] = 0
    /\ balances[owner][GOLD] = MAX_UINT - 25

\* C25 as stated: with a clock that never goes back, no account's
\* last-reward timestamp ever decreases.
C25_TimestampMonotonic ==
    [][now' >= now
        => \A a \in Accounts : lastTimeRewardClaim'[a] >= lastTimeRewardClaim[a]]_vars

\* C25 amended: with a clock that never goes back, an account's last-reward
\* timestamp decreases only in a successful owner reset covering the
\* account, which sets it to 0.
C25_TimestampMonotonicUnlessReset ==
    [][now' >= now
        => \A a \in Accounts :
             \/ lastTimeRewardClaim'[a] >= lastTimeRewardClaim[a]
             \/ IsResetOf(a) /\ lastTimeRewardClaim'[a] = 0]_vars

\* p, which had claimed at 300, was reset: its timestamp is 0 again.
C25_Witness ==
    /\ lastOp.op = "resetPlayer"
    /\ lastOp.target = "p"
    /\ lastOp.err = NoError
    /\ lastGrant["p"] = TIME_REWARD_COOLDOWN
    /\ lastTimeRewardClaim["p"] = 0

\* C26 as stated: a successful claimTimeRewards comes at least 300 seconds
\* after the same account's previous successful claimTimeRewards.
C26_MinimumInterval ==
    [][(IsCall("claimTimeRewards") /\ Succeeded /\ lastGrant[lastOp'.caller] > 0)
        => now - lastGrant[lastOp'.caller] >= 300]_vars

\* C26 amended: the same unless the account was reset since its previous
\* successful claim.  The stored timestamp is the time of the last successful
\* claim until a reset covering the account sets it to 0, and a claim made
\* while it is 0 needs only now >= 300.
C26_MinimumIntervalUnlessReset ==
    [][/\ (IsCall("claimTimeRewards") /\ Succeeded /\ lastGrant[lastOp'.caller] > 0)
          => \/ now - lastGrant[lastOp'.caller] >= 300
             \/ lastTimeRewardClaim[lastOp'.caller] = 0 /\ now >= 300
       /\ \A a \in Accounts :
            lastTimeRewardClaim'[a] # lastGrant'[a]
              => /\ lastTimeRewardClaim'[a] = 0
                 /\ lastTimeRewardClaim[a] # lastGrant[a] \/ IsResetOf(a)]_vars

\* p claimed at 300, was reset, and has claimed again in the same second.
C26_Witness ==
    /\ lastOp.op = "claimTimeRewards"
    /\ lastOp.caller = "p"
    /\ lastOp.err = NoError
    /\ now = TIME_REWARD_COOLDOWN
    /\ totalBurned[COMMON_SWORD] = 1
    /\ lastTimeRewardClaim["p"] = now

\* C27: whatever the players call, no account ever holds more than one unit
\* of a legendary token id 2001..2005.
C27_OneLegendaryPerVariant ==
    \A a \in Accounts, v \in LegendaryIds : balances[a][v] <= 1

\* C28: craftLegendarySword reports the first failing check in this order:
\* invalid variant id, whatever the flags and balances; then, for a valid
\* variant, already crafted, even when the caller also lacks the materials;
\* the missing Epic swords or Gold only for a valid variant not yet crafted.
C28_ErrorPrecedence ==
    [][IsCall("craftLegendarySword")
        => LET c == lastOp'.caller
               v == lastOp'.id
           IN  lastOp'.err =
                 IF v \notin 2001 .. 2005 THEN ErrInvalidId
                 ELSE IF hasCraftedLegendary[c][v] THEN ErrAlreadyCrafted
                 ELSE IF balances[c][EPIC_SWORD] < 5 THEN ErrEpic
                 ELSE IF balances[c][GOLD] < 1000 THEN ErrGold
                 ELSE NoError]_vars

\* Right after the craft that took its five Epic swords and all its Gold, p
\* asked for variant 2001 again and was told that it is already crafted.
C28_Witness ==
    /\ lastOp.op = "craftLegendarySword"
    /\ lastOp.caller = "p"
    /\ lastOp.id = LEGENDARY_SWORD_1
    /\ lastOp.err = ErrAlreadyCrafted
    /\ stepCount = 2
    /\ balances["p"][EPIC_SWORD] = 0
    /\ balances["p"][GOLD] = 0
    /\ balances["p"][LEGENDARY_SWORD_1] = 1

\* C29: a successful craftLegendarySword(v) sets the flag and adds one unit
\* of variant v and leaves the flag and balance of every other variant; the
\* call succeeds for every valid variant not yet crafted by the caller when
\* the caller holds the materials, whichever other variants it has crafted.
C29_VariantsIndependent ==
    [][IsCall("craftLegendarySword")
        => LET c == lastOp'.caller
               v == lastOp'.id
           IN  /\ Succeeded
                    => /\ hasCraftedLegendary'[c][v]
                       /\ balances'[c][v] = balances[c][v] + 1
                       /\ \A w \in LegendaryIds \ {v} :
                            /\ hasCraftedLegendary'[c][w] = hasCraftedLegendary[c][w]
                            /\ balances'[c][w] = balances[c][w]
               /\ (/\ v \in LegendaryIds
                   /\ ~hasCraftedLegendary[c][v]
                   /\ balances[c][EPIC_SWORD] >= 5
                   /\ balances[c][GOLD] >= 1000) => Succeeded]_vars

\* The owner, having crafted variant 2001, has crafted variant 2002 as well.
C29_Witness ==
    /\ lastOp.op = "craftLegendarySword"
    /\ lastOp.caller = owner
    /\ lastOp.id = LEGENDARY_SWORD_2
    /\ lastOp.err = NoError
    /\ hasCraftedLegendary[owner][LEGENDARY_SWORD_1]
    /\ balances[owner][LEGENDARY_SWORD_1] = 1
    /\ balances[owner][LEGENDARY_SWORD_2] = 1
    /\ balances[owner][EPIC_SWORD] = 0

\* The balances, flags and timestamp of account a are the same after the step.
AccountUnchanged(a) ==
    /\ balances'[a] = balances[a]
    /\ hasClaimedStarterPack'[a] = hasClaimedStarterPack[a]
    /\ hasCraftedLegendary'[a] = hasCraftedLegendary[a]
    /\ lastTimeRewardClaim'[a] = lastTimeRewardClaim[a]

\* C31: a player function changes balances, flags and timestamp of its
\* caller only; mintEnergy, mintGold and resetPlayer change those of their
\* target only; every other account keeps its balances, flags and timestamp.
C31_Isolation ==
    [][/\ (\E op \in PlayerOps : IsCall(op))
          => \A b \in Accounts \ {lastOp'.caller} : AccountUnchanged(b)
       /\ (\E op \in {"mintEnergy", "mintGold", "resetPlayer"} : IsCall(op))
          => \A b \in Accounts \ {lastOp'.target} : AccountUnchanged(b)]_vars

\* p was reset while q kept its starter-pack flag, its two Rare swords and
\* its Gold.
C31_Witness ==
    /\ lastOp.op = "resetPlayer"
    /\ lastOp.target = "p"
    /\ lastOp.err = NoError
    /\ IsClean("p")
    /\ hasClaimedStarterPack["q"]
    /\ balances["q"][RARE_SWORD] = 2
    /\ balances["q"][GOLD] > STARTER_PACK_GOLD

\* C32: a player function that fails does not register its caller: though
\* _trackPlayer(caller) was its first step, the player list and the
\* membership map are as before the call.
C32_FailedCallNotRegistered ==
    [][((\E op \in PlayerOps : IsCall(op)) /\ ~Succeeded)
        => /\ lastOp'.tracked = <<lastOp'.caller>>
           /\ playerList' = playerList
           /\ isPlayer' = isPlayer]_vars

\* q, never seen before, ran the dungeon without Energy and is still
\* unknown to the registry.
C32_Witness ==
    /\ lastOp.op = "runDungeon"
    /\ lastOp.caller = "q"
    /\ lastOp.err = ErrEnergy
    /\ lastOp.tracked = <<"q">>
    /\ ~isPlayer["q"]
    /\ "q" \notin Range(playerList)
    /\ ~HasEntry("q")

\* Sum of the amounts listed for id among the first k entries of a burn list.
RECURSIVE BurnedUpTo(_, _, _, _)
BurnedUpTo(ids, amounts, id, k) ==
    IF k = 0 THEN 0
    ELSE BurnedUpTo(ids, amounts, id, k - 1)
         + (IF ids[k] = id THEN amounts[k] ELSE 0)

\* C33: craftItem fails when the two lists differ in length or when a
\* listed burn exceeds what the caller still holds at that point of the
\* loop; otherwise, whatever the caller, the lists and the result id, it
\* burns each listed amount and mints exactly 1 unit of the result id, and
\* it never changes a legendary crafted flag.
C33_CraftItem ==
    [][IsCall("craftItem") =>
        LET c == lastOp'.caller
            ids == lastOp'.burnIds
            amounts == lastOp'.burnAmounts
            short == \E k \in 1 .. Len(ids) :
                        BurnedUpTo(ids, amounts, ids[k], k) > balances[c][ids[k]]
        IN  /\ Len(ids) # Len(amounts) => lastOp'.err = ErrLength
            /\ (Len(ids) = Len(amounts) /\ short) => lastOp'.err = ErrBurn
            /\ (Len(ids) = Len(amounts) /\ ~short) =>
                   /\ Succeeded
                   /\ \A id \in TokenIds :
                         balances'[c][id] =
                             balances[c][id]
                             - BurnedUpTo(ids, amounts, id, Len(ids))
                             + (IF id = lastOp'.id THEN 1 ELSE 0)
            /\ ~Succeeded => balances' = balances
            /\ hasCraftedLegendary' = hasCraftedLegendary]_vars

\* q burned a Common sword twice in one list and received legendary 2001
\* with its crafted flag still false.
C33_Witness ==
    /\ lastOp.op = "craftItem"
    /\ lastOp.caller = "q"
    /\ lastOp.err = NoError
    /\ lastOp.burnIds = <<COMMON_SWORD, COMMON_SWORD>>
    /\ lastOp.id = LEGENDARY_SWORD_1
    /\ balances["q"][LEGENDARY_SWORD_1] = 1
    /\ ~hasCraftedLegendary["q"][LEGENDARY_SWORD_1]

\* C35: the first claim has no special case: for a caller whose stored
\* timestamp is 0 (never claimed, or just reset) claimTimeRewards succeeds
\* exactly when now >= TIME_REWARD_COOLDOWN, and fails with the cooldown
\* error at every earlier time.
C35_NoFirstClaimCase ==
    [][(IsCall("claimTimeRewards") /\ lastTimeRewardClaim[lastOp'.caller] = 0)
        => /\ Succeeded <=> now >= TIME_REWARD_COOLDOWN
           /\ now < TIME_REWARD_COOLDOWN => lastOp'.err = ErrCooldown]_vars

\* An account that never claimed is refused one second before the cooldown
\* has elapsed since time 0.
C35_Witness ==
    /\ lastOp.op = "claimTimeRewards"
    /\ lastOp.err = ErrCooldown
    /\ now = TIME_REWARD_COOLDOWN - 1
    /\ lastTimeRewardClaim[lastOp.caller] = 0
    /\ lastGrant[lastOp.caller] = 0

\* C36: in every successful claimTimeRewards the Energy reward is 2 exactly
\* when the Gold reward is even and 1 exactly when it is odd, so only the
\* six pairs (5,1), (7,1), (9,1), (6,2), (8,2), (10,2) occur.
C36_CoupledRewards ==
    [][(IsCall("claimTimeRewards") /\ Succeeded) =>
        LET c == lastOp'.caller
            gold == balances'[c][GOLD] - balances[c][GOLD]
            energy == balances'[c][ENERGY] - balances[c][ENERGY]
        IN  /\ energy = 2 <=> gold \in {6, 8, 10}
            /\ energy = 1 <=> gold \in {5, 7, 9}
            /\ <<gold, energy>> \in {<<5, 1>>, <<7, 1>>, <<9, 1>>,
                                     <<6, 2>>, <<8, 2>>, <<10, 2>>}]_vars

\* The owner claimed with random value 4 and received 9 Gold and 1 Energy.
C36_Witness ==
    /\ lastOp.op = "claimTimeRewards"
    /\ lastOp.caller = Deployer
    /\ lastOp.err = NoError
    /\ lastOp.roll = 4
    /\ balances[Deployer][GOLD] = 10000 + 9
    /\ balances[Deployer][ENERGY] = 1000 + 1

\* C37: immediately after deployment the deployer is the owner (the owner-only
\* functions accept the deployer and nobody else), holds exactly 1000 Energy
\* and 10000 Gold and nothing else, and is the only registry entry, at index
\* 0; every other account has balance 0 for every token id, all flags false,
\* timestamp 0 and is not registered.
C37_InitialState ==
    [][stepCount = 0 =>
        /\ owner = Deployer
        /\ (\E op \in AdminOps : IsCall(op))
              => (Succeeded <=> lastOp'.caller = Deployer)
        /\ \A id \in TokenIds :
              balances[Deployer][id] =
                  IF id = ENERGY THEN 1000 ELSE IF id = GOLD THEN 10000 ELSE 0
        /\ playerList = <<Deployer>>
        /\ getPlayerCountRet(playerList) = <<1>>
        /\ getPlayerAtRet(playerList, 0) = <<Deployer>>
        /\ isPlayer[Deployer]
        /\ \A a \in Accounts :
              /\ ~hasClaimedStarterPack[a]
              /\ lastTimeRewardClaim[a] = 0
              /\ \A v \in LegendaryIds : ~hasCraftedLegendary[a][v]
        /\ \A a \in Accounts \ {Deployer} :
              /\ \A id \in TokenIds : balances[a][id] = 0
              /\ ~isPlayer[a]]_vars

\* The freshly deployed contract, before any call.
C37_Witness ==
    /\ stepCount = 0
    /\ lastOp.op = "none"
    /\ totalMinted[ENERGY] = 1000
    /\ totalMinted[GOLD] = 10000
    /\ \A id \in TokenIds : totalBurned[id] = 0
    /\ Len(playerList) = 1

\* C34: every holder is resettable: each account with a non-zero balance of
\* one of the ten game token ids is in the player registry, so right after a
\* successful resetAllPlayers the total supply of each of the ten ids is 0.
C34_EveryHolderResettable ==
    /\ \A a \in Accounts :
          (\E id \in GameIds : balances[a][id] > 0)
              => (isPlayer[a] /\ a \in Range(playerList))
    /\ (lastOp.op = "resetAllPlayers" /\ lastOp.err = NoError)
          => \A id \in GameIds : Supply(id) = 0

\* C38: whenever no asynchronous chain-id lookup is pending, the account held
\* by WalletConnect and the account held by App agree; in particular a
\* disconnect that arrives while the lookup started by an accountsChanged
\* event is pending cannot leave App connected after WalletConnect has
\* cleared its account.
C38_WalletSessionConsistent ==
    lookups = << >> => wcAccount = appAccount
====
